---- MODULE Spec2Model ----
(***************************************************************************)
(* Three-dimensional Chomp solver (src/src/main.rs).                       *)
(*                                                                         *)
(* A board state is a u128 bit mask.  TLC's integers are 32 bits wide, so  *)
(* a u128 value v is represented by the set of its set bit positions,      *)
(* a subset of 0..Width-1: 0 is {}, 1 is {0}, 3 is {0,1}, a & b is the     *)
(* intersection, a | b the union, a & !b the set difference.  The shift    *)
(* 1 << i is modelled with its width (Shl1).                               *)
(*                                                                         *)
(* The board shape X_DIM, Y_DIM, Z_DIM is fixed at build time in the       *)
(* source; here it is chosen in the initial state, so that one model       *)
(* covers every build within the bounds.                                   *)
(***************************************************************************)
EXTENDS Integers, Sequences, FiniteSets, TLC

VARIABLES
    X_DIM, Y_DIM, Z_DIM,  \* board shape (build-time constants of the source)
    pc,                   \* position of the driver
    initial_state,        \* main's initial_state / the argument of a call
    memo,                 \* the DashMap: a function from states to BOOLEAN
    frames,               \* active calls of win: path of states |-> frame
    first_win,            \* main's first_win: <<>> before it is set, then <<b>>
    wm_i,                 \* winning_moves: index of the move being filtered
    wm_out,               \* winning_moves: coordinates collected so far
    returned,             \* history: <<state, value>> of every return of win
    run,                  \* number of the solve being run
    prev,                 \* results of the previous solve (<<>> if none)
    moves,                \* result of a direct call of legal_moves
    board,                \* the board of a game played move by move
    overflow_lint         \* build setting: arithmetic_overflow lint, "deny" / "allow"

vars == <<X_DIM, Y_DIM, Z_DIM, pc, initial_state, memo,
          frames, first_win, wm_i, wm_out, returned, run, prev, moves, board,
          overflow_lint>>

----------------------------------------------------------------------------
(* Bounds and constants *)

\* u128: number of bits of a board state
Width == 128

\* largest TOT whose game tree is explored
MaxTot == 4

\* oversized shapes 1 x 1 x z with z in Width .. Width + MaxOver
MaxOver == 1

\* number of solves run one after the other in the same process
MaxRuns == 2

TOT == X_DIM * Y_DIM * Z_DIM

\* the board shapes <<X_DIM, Y_DIM, Z_DIM>> with TOT <= n
Shapes(n) == {s \in (1..n) \X (1..n) \X (1..n) : s[1] * s[2] * s[3] <= n}

SmallShapes == Shapes(MaxTot)

OverShapes == {<<1, 1, z>> : z \in Width..(Width + MaxOver)}

EmptyMap == [s \in {} |-> FALSE]

\* the u128 value 1: only the poison bit
One == {0}

----------------------------------------------------------------------------
(* Pure functions *)

\* 1 << i on u128 without overflow checks: the shift amount is taken
\* modulo the width
Shl1(i) == {i % Width}

index_to_coord(i) ==
    <<i % X_DIM, (i \div X_DIM) % Y_DIM, i \div (X_DIM * Y_DIM)>>

coord_ge_strict(a, b) == a[1] > b[1] /\ a[2] > b[2] /\ a[3] > b[3]

coord_ge(a, b) == a[1] >= b[1] /\ a[2] >= b[2] /\ a[3] >= b[3]

removal_mask_swapped(chosen) ==
    UNION {Shl1(i) : i \in {j \in 0..(TOT - 1) : coord_ge(chosen, index_to_coord(j))}}

removal_mask(chosen) ==
    UNION {Shl1(i) : i \in {j \in 0..(TOT - 1) : coord_ge(index_to_coord(j), chosen)}}

\* the body of the loop of legal_moves for block index i: the move pushed,
\* or nothing
legal_moves_step_nopoison(state, i) ==
    IF (state \cap Shl1(i)) # {}
    THEN LET chosen == index_to_coord(i)
             rm_mask == removal_mask(chosen)
         IN  <<<<chosen, state \ rm_mask>>>>
    ELSE <<>>

legal_moves_step_single(state, i) ==
    IF (state \cap Shl1(i)) # {}
    THEN LET chosen == index_to_coord(i)
             rm_mask == removal_mask(chosen)
         IN  IF chosen = <<0, 0, 0>> THEN <<>>
             ELSE IF 0 \in rm_mask THEN <<>>
             ELSE <<<<chosen, state \ Shl1(i)>>>>
    ELSE <<>>

legal_moves_step(state, i) ==
    IF (state \cap Shl1(i)) # {}
    THEN LET chosen == index_to_coord(i)
             rm_mask == removal_mask(chosen)
         IN  IF chosen = <<0, 0, 0>> THEN <<>>
             ELSE IF 0 \in rm_mask THEN <<>>
             ELSE <<<<chosen, state \ rm_mask>>>>
    ELSE <<>>

\* The loop of legal_moves, i from 0 to TOT - 1: the moves pushed, in the
\* order of the loop.  Emitting(state, n) are the indices below n at which
\* the body pushes a move; the k-th move of the result is the one pushed at
\* the k-th smallest of them.  E is the one value of Emitting(state, TOT),
\* bound once.
Emitting(state, n) == {i \in 0..(n - 1) : legal_moves_step(state, i) # <<>>}

legal_moves_short(state) ==
    LET E == Emitting(state, TOT - 1)
    IN  [k \in 1..Cardinality(E) |->
            legal_moves_step(state,
                CHOOSE i \in E : Cardinality({j \in E : j < i}) = k - 1)[1]]

legal_moves_reversed(state) ==
    LET E == Emitting(state, TOT)
    IN  [k \in 1..Cardinality(E) |->
            legal_moves_step(state,
                CHOOSE i \in E : Cardinality({j \in E : j > i}) = k - 1)[1]]

legal_moves(state) ==
    CHOOSE f \in {[k \in 1..Cardinality(E) |->
                     legal_moves_step(state,
                         CHOOSE i \in E : Cardinality({j \in E : j < i}) = k - 1)[1]] :
                 E \in {Emitting(state, TOT)}} : TRUE

----------------------------------------------------------------------------
(* win: the parallel memoised search *)

\* DashMap::insert: the entry of key k becomes v.  (Put_evict is a table
\* that evicts its other entries on insert, Put_negated one that stores the
\* negated value.)
Put_evict(m, k, v) == [x \in {k} |-> v]

Put_negated(m, k, v) == [x \in (DOMAIN m) \cup {k} |-> IF x = k THEN ~v ELSE m[x]]

Put(m, k, v) == [x \in (DOMAIN m) \cup {k} |-> IF x = k THEN v ELSE m[x]]

\* The start of a call win(state, memo), up to the point where it either
\* returns or fans out over its moves: the terminal test, the memo lookup
\* and the test for an empty move list.  The result is the frame of the
\* call: pc "done" with the returned value, "insert" when the call is about
\* to record FALSE for a state without moves, "fanout" when it waits for
\* its children.  src says where the value comes from.
Enter_no_base(state, m) ==
    IF state \in DOMAIN m
    THEN [pc |-> "done", ret |-> m[state], src |-> "memo"]
    ELSE IF legal_moves(state) = <<>>
    THEN [pc |-> "insert", ret |-> FALSE, src |-> "empty"]
    ELSE [pc |-> "fanout", ret |-> FALSE, src |-> "computed"]

Enter_memo_first(state, m) ==
    IF state \in DOMAIN m
    THEN [pc |-> "done", ret |-> m[state], src |-> "memo"]
    ELSE IF state = One
    THEN [pc |-> "done", ret |-> FALSE, src |-> "base"]
    ELSE IF legal_moves(state) = <<>>
    THEN [pc |-> "insert", ret |-> FALSE, src |-> "empty"]
    ELSE [pc |-> "fanout", ret |-> FALSE, src |-> "computed"]

Enter(state, m) ==
    IF state = One
    THEN [pc |-> "done", ret |-> FALSE, src |-> "base"]
    ELSE IF state \in DOMAIN m
    THEN [pc |-> "done", ret |-> m[state], src |-> "memo"]
    ELSE IF legal_moves(state) = <<>>
    THEN [pc |-> "insert", ret |-> FALSE, src |-> "empty"]
    ELSE [pc |-> "fanout", ret |-> FALSE, src |-> "computed"]

\* the resulting states of the moves of state
Children(state) == LET lm == legal_moves(state) IN {lm[k][2] : k \in DOMAIN lm}

Last(p) == p[Len(p)]

\* win evaluated on an empty memo table by one thread: the value the search
\* computes for state when nothing is cached and no branch is cut off
RECURSIVE win_seq(_)
win_seq(state) ==
    IF state = One THEN FALSE
    ELSE \E c \in Children(state) : ~win_seq(c)

\* the calls of win started by the fan-out of the call at path p
Kids(p) == {q \in DOMAIN frames : Len(q) = Len(p) + 1 /\ SubSeq(q, 1, Len(p)) = p}

\* the closure of the fan-out, !win(new_state, memo), on the value its call
\* of win returned
closure_id(ret) == ret

closure(ret) == ~ret

\* par_iter().any(closure) over the finished children of p: TRUE as soon as
\* the closure is TRUE for one of them
par_any(p) ==
    \E q \in Kids(p) : frames[q].pc = "done" /\ closure(frames[q].ret)

\* what a frame adds to the history of returned values
Record(fr, state) == IF fr.pc = "done" THEN {<<state, fr.ret>>} ELSE {}

\* The fan-out of the call at p takes the move to child state c and calls
\* win on it.  Every item is taken at most once; the items are taken in any
\* order and run concurrently.  The short-circuit of any is best effort: an
\* item may still be taken after the closure was TRUE for another one, as
\* long as the fan-out has not completed (FanoutReturn).
ChildCall(p, c) ==
    /\ pc \in {"win_wait", "wm_wait"}
    /\ p \in DOMAIN frames
    /\ frames[p].pc = "fanout"
    /\ c \in Children(Last(p))
    /\ Append(p, c) \notin DOMAIN frames
    /\ frames' = frames @@ (Append(p, c) :> Enter(c, memo))
    /\ returned' = returned \cup Record(Enter(c, memo), c)
    /\ UNCHANGED <<X_DIM, Y_DIM, Z_DIM, pc, initial_state,
                   memo, first_win, wm_i, wm_out, run, prev, moves, board, overflow_lint>>

\* The fan-out of the call at p is over: every child started has returned,
\* and either one closure was TRUE or every move was taken.  The call
\* inserts the result into the memo table and returns it.
FanoutReturn(p) ==
    /\ pc \in {"win_wait", "wm_wait"}
    /\ p \in DOMAIN frames
    /\ frames[p].pc = "fanout"
    /\ \A q \in Kids(p) : frames[q].pc = "done"
    /\ par_any(p) \/ \A c \in Children(Last(p)) : Append(p, c) \in DOMAIN frames
    /\ LET winning == par_any(p)
       IN  /\ memo' = Put(memo, Last(p), winning)
           /\ frames' = [q \in (DOMAIN frames) \ Kids(p) |->
                            IF q = p
                            THEN [pc |-> "done", ret |-> winning, src |-> "computed"]
                            ELSE frames[q]]
           /\ returned' = returned \cup {<<Last(p), winning>>}
    /\ UNCHANGED <<X_DIM, Y_DIM, Z_DIM, pc, initial_state,
                   first_win, wm_i, wm_out, run, prev, moves, board, overflow_lint>>

\* A call on a state without moves records FALSE and returns it.
InsertEmpty(p) ==
    /\ pc \in {"win_wait", "wm_wait"}
    /\ p \in DOMAIN frames
    /\ frames[p].pc = "insert"
    /\ memo' = Put(memo, Last(p), FALSE)
    /\ frames' = [frames EXCEPT ![p] = [pc |-> "done", ret |-> FALSE, src |-> "empty"]]
    /\ returned' = returned \cup {<<Last(p), FALSE>>}
    /\ UNCHANGED <<X_DIM, Y_DIM, Z_DIM, pc, initial_state,
                   first_win, wm_i, wm_out, run, prev, moves, board, overflow_lint>>

----------------------------------------------------------------------------
(* main and winning_moves *)

\* (1u128 << n) - 1, the shift amount taken modulo the width
low_bits(n) == 0..((n % Width) - 1)

\* let initial_state = (1u128 << TOT) - 1; let memo = DashMap::new().
\* TOT is a constant, and a shift of a u128 by a constant TOT >= 128
\* overflows.  With the arithmetic_overflow lint at its default level,
\* deny, the compiler rejects the program: it does not build and nothing
\* runs.  With the lint allowed or capped by the build settings the program
\* builds: with overflow checks (debug profile) the shift panics, before
\* anything else runs; without them (release profile) the shift amount
\* wraps and the program goes on.  MainInit_wrap is the program that wraps
\* under every build setting.
MainInit_wrap ==
    /\ pc = "start"
    /\ pc' = "win"
    /\ initial_state' = low_bits(TOT)
    /\ memo' = EmptyMap
    /\ UNCHANGED <<X_DIM, Y_DIM, Z_DIM, frames, first_win,
                   wm_i, wm_out, returned, run, prev, moves, board,
                   overflow_lint>>

MainInit ==
    /\ pc = "start"
    /\ IF TOT >= Width
       THEN \/ /\ pc' = "fatal"
               /\ UNCHANGED initial_state
            \/ /\ overflow_lint = "allow"
               /\ pc' = "win"
               /\ initial_state' = low_bits(TOT)
       ELSE /\ pc' = "win"
            /\ initial_state' = low_bits(TOT)
    /\ memo' = EmptyMap
    /\ UNCHANGED <<X_DIM, Y_DIM, Z_DIM, frames, first_win,
                   wm_i, wm_out, returned, run, prev, moves, board,
                   overflow_lint>>

\* main calls win(initial_state, &memo)
MainWin ==
    /\ pc = "win"
    /\ frames' = (<<initial_state>> :> Enter(initial_state, memo))
    /\ returned' = returned \cup Record(Enter(initial_state, memo), initial_state)
    /\ pc' = "win_wait"
    /\ UNCHANGED <<X_DIM, Y_DIM, Z_DIM, initial_state, memo,
                   first_win, wm_i, wm_out, run, prev, moves, board, overflow_lint>>

\* win returns to main: first_win is set and printed, winning_moves starts
MainWinReturn ==
    /\ pc = "win_wait"
    /\ frames[<<initial_state>>].pc = "done"
    /\ first_win' = <<frames[<<initial_state>>].ret>>
    /\ frames' = <<>>
    /\ wm_i' = 1
    /\ wm_out' = <<>>
    /\ pc' = "winning_moves"
    /\ UNCHANGED <<X_DIM, Y_DIM, Z_DIM, initial_state, memo,
                   returned, run, prev, moves, board,
                   overflow_lint>>

\* the filter of winning_moves on the value win returned for the child:
\* the move is kept if the child is not winning
keeps_all(ret) == TRUE

keeps(ret) == ~ret

\* collect(): a kept move goes to the end of the list
push_front(out, mv) == <<mv>> \o out

push(out, mv) == Append(out, mv)

\* winning_moves takes the next move of legal_moves(state) and calls win on
\* its resulting state
WMCall ==
    /\ pc = "winning_moves"
    /\ wm_i <= Len(legal_moves(initial_state))
    /\ \E c \in {legal_moves(initial_state)[wm_i][2]} :
           /\ frames' = (<<c>> :> Enter(c, memo))
           /\ returned' = returned \cup Record(Enter(c, memo), c)
    /\ pc' = "wm_wait"
    /\ UNCHANGED <<X_DIM, Y_DIM, Z_DIM, initial_state, memo,
                   first_win, wm_i, wm_out, run, prev, moves, board, overflow_lint>>

\* win returns to the filter of winning_moves
WMReturn ==
    /\ pc = "wm_wait"
    /\ LET mv == legal_moves(initial_state)[wm_i]
       IN  /\ frames[<<mv[2]>>].pc = "done"
           /\ wm_out' = IF keeps(frames[<<mv[2]>>].ret)
                        THEN push(wm_out, mv[1])
                        ELSE wm_out
    /\ wm_i' = wm_i + 1
    /\ frames' = <<>>
    /\ pc' = "winning_moves"
    /\ UNCHANGED <<X_DIM, Y_DIM, Z_DIM, initial_state, memo,
                   first_win, returned, run, prev, moves, board,
                   overflow_lint>>

\* winning_moves has filtered every move: main prints the list
WMDone ==
    /\ pc = "winning_moves"
    /\ wm_i > Len(legal_moves(initial_state))
    /\ pc' = "done"
    /\ UNCHANGED <<X_DIM, Y_DIM, Z_DIM, initial_state, memo,
                   frames, first_win, wm_i, wm_out, returned, run, prev, moves, board,
                   overflow_lint>>

\* the set of all paths a call may have
Paths == DOMAIN frames

Init ==
    /\ \E s \in SmallShapes \cup OverShapes :
           X_DIM = s[1] /\ Y_DIM = s[2] /\ Z_DIM = s[3]
    /\ pc = "start"
    /\ initial_state = {}
    /\ memo = EmptyMap
    /\ frames = <<>>
    /\ first_win = <<>>
    /\ wm_i = 1
    /\ wm_out = <<>>
    /\ returned = {}
    /\ run = 1
    /\ prev = <<>>
    /\ moves = <<>>
    /\ board = {}
    /\ overflow_lint \in {"deny", "allow"}

Next ==
    \/ MainInit
    \/ MainWin
    \/ \E p \in Paths : \E c \in Children(Last(p)) : ChildCall(p, c)
    \/ \E p \in Paths : FanoutReturn(p)
    \/ \E p \in Paths : InsertEmpty(p)
    \/ MainWinReturn
    \/ WMCall
    \/ WMReturn
    \/ WMDone

Spec == Init /\ [][Next]_vars

----------------------------------------------------------------------------
(* The full solve run again in the same process *)

\* After a solve has printed its results, the same configuration is solved
\* again: win(initial_state) and then winning_moves(initial_state), with the
\* memo table of the previous solve or with a new, empty one.
Rerun ==
    /\ pc = "done"
    /\ run < MaxRuns
    /\ \E reuse \in BOOLEAN :
           /\ prev' = [first_win |-> first_win, moves |-> wm_out, reuse |-> reuse]
           /\ memo' = IF reuse THEN memo ELSE EmptyMap
    /\ run' = run + 1
    /\ first_win' = <<>>
    /\ wm_i' = 1
    /\ wm_out' = <<>>
    /\ pc' = "win"
    /\ UNCHANGED <<X_DIM, Y_DIM, Z_DIM, initial_state, frames,
                   returned, moves, board, overflow_lint>>

NextTwice ==
    \/ MainInit
    \/ MainWin
    \/ \E p \in Paths : \E c \in Children(Last(p)) : ChildCall(p, c)
    \/ \E p \in Paths : FanoutReturn(p)
    \/ \E p \in Paths : InsertEmpty(p)
    \/ MainWinReturn
    \/ WMCall
    \/ WMReturn
    \/ WMDone
    \/ Rerun

SpecTwice == Init /\ [][NextTwice]_vars

----------------------------------------------------------------------------
(* win and winning_moves called on any board state, memo table empty *)

\* largest TOT of the boards on which win and winning_moves are called on
\* any state
MaxTotCall == 3

\* largest TOT of the boards on which win is called with an arbitrary memo
\* table
MaxTotMemo == 2

\* largest number of entries of an arbitrary memo table
MaxMemo == 2

\* winning_moves(state) is called either after win(state) on the same memo
\* table, as main does, or first, on the empty table
InitCall ==
    /\ \E s \in Shapes(MaxTotCall) : X_DIM = s[1] /\ Y_DIM = s[2] /\ Z_DIM = s[3]
    /\ pc \in {"win", "winning_moves"}
    /\ initial_state \in SUBSET (0..(TOT - 1))
    /\ memo = EmptyMap
    /\ frames = <<>>
    /\ first_win = <<>>
    /\ wm_i = 1
    /\ wm_out = <<>>
    /\ returned = {}
    /\ run = 1
    /\ prev = <<>>
    /\ moves = <<>>
    /\ board = {}
    /\ overflow_lint = "deny"

NextCall ==
    \/ MainWin
    \/ \E p \in Paths : \E c \in Children(Last(p)) : ChildCall(p, c)
    \/ \E p \in Paths : FanoutReturn(p)
    \/ \E p \in Paths : InsertEmpty(p)
    \/ MainWinReturn
    \/ WMCall
    \/ WMReturn
    \/ WMDone

SpecCall == InitCall /\ [][NextCall]_vars

\* the same calls under a scheduler that lets a step be taken whenever one is
\* possible: main's thread runs, and the thread pool runs every job given to
\* it
SpecCallFair == InitCall /\ [][NextCall]_vars /\ WF_vars(NextCall)

\* the memo tables with at most MaxMemo entries over the states of the board
Memos ==
    UNION {[D -> BOOLEAN] :
              D \in {E \in SUBSET SUBSET (0..(TOT - 1)) : Cardinality(E) <= MaxMemo}}

\* win(state, memo) on any board state and any memo table
InitMemo ==
    /\ \E s \in Shapes(MaxTotMemo) : X_DIM = s[1] /\ Y_DIM = s[2] /\ Z_DIM = s[3]
    /\ pc = "win"
    /\ initial_state \in SUBSET (0..(TOT - 1))
    /\ memo \in Memos
    /\ frames = <<>>
    /\ first_win = <<>>
    /\ wm_i = 1
    /\ wm_out = <<>>
    /\ returned = {}
    /\ run = 1
    /\ prev = <<>>
    /\ moves = <<>>
    /\ board = {}
    /\ overflow_lint = "deny"

NextMemo ==
    \/ MainWin
    \/ \E p \in Paths : \E c \in Children(Last(p)) : ChildCall(p, c)
    \/ \E p \in Paths : FanoutReturn(p)
    \/ \E p \in Paths : InsertEmpty(p)
    \/ MainWinReturn

SpecMemo == InitMemo /\ [][NextMemo]_vars

----------------------------------------------------------------------------
(* legal_moves called directly on any board state *)

\* largest TOT of the boards on which legal_moves is called directly
MaxTotMoves == 12

\* number of bit positions at and above TOT that the argument may have set
MaxHigh == 1

\* the argument is any u128 value with bits below TOT + MaxHigh
InitMoves ==
    /\ \E s \in Shapes(MaxTotMoves) : X_DIM = s[1] /\ Y_DIM = s[2] /\ Z_DIM = s[3]
    /\ pc = "legal_moves"
    /\ initial_state \in SUBSET (0..(TOT + MaxHigh - 1))
    /\ memo = EmptyMap
    /\ frames = <<>>
    /\ first_win = <<>>
    /\ wm_i = 1
    /\ wm_out = <<>>
    /\ returned = {}
    /\ run = 1
    /\ prev = <<>>
    /\ moves = <<>>
    /\ board = {}
    /\ overflow_lint = "deny"

CallLegalMoves ==
    /\ pc = "legal_moves"
    /\ moves' = legal_moves(initial_state)
    /\ pc' = "legal_moves_done"
    /\ UNCHANGED <<X_DIM, Y_DIM, Z_DIM, initial_state, memo,
                   frames, first_win, wm_i, wm_out, returned, run, prev, board,
                   overflow_lint>>

NextMoves == CallLegalMoves

SpecMoves == InitMoves /\ [][NextMoves]_vars

----------------------------------------------------------------------------
(* win and winning_moves called on the boards of a game *)

\* the states reachable from the states of S by legal moves
RECURSIVE ReachFrom(_)
ReachFrom(S) ==
    LET N == S \cup UNION {Children(s) : s \in S}
    IN  IF N = S THEN S ELSE ReachFrom(N)

\* largest TOT of the boards whose games are taken
MaxTotBoards == 8

\* win or winning_moves is called on a state that a game reaches from the
\* full board once at least half of the blocks are gone, or on any state of
\* a board with TOT <= MaxTotCall
InitBoards ==
    /\ \E s \in Shapes(MaxTotBoards) : X_DIM = s[1] /\ Y_DIM = s[2] /\ Z_DIM = s[3]
    /\ pc \in {"win", "winning_moves"}
    /\ \/ /\ initial_state \in ReachFrom({low_bits(TOT)})
          /\ 2 * Cardinality(initial_state) <= TOT
       \/ /\ TOT <= MaxTotCall
          /\ initial_state \in SUBSET (0..(TOT - 1))
    /\ memo = EmptyMap
    /\ frames = <<>>
    /\ first_win = <<>>
    /\ wm_i = 1
    /\ wm_out = <<>>
    /\ returned = {}
    /\ run = 1
    /\ prev = <<>>
    /\ moves = <<>>
    /\ board = {}
    /\ overflow_lint = "deny"

SpecBoards == InitBoards /\ [][NextCall]_vars

----------------------------------------------------------------------------
(* The game played move by move from the initial board *)

\* the board main builds, for the shapes whose TOT is below the width
InitPlay ==
    /\ \E s \in Shapes(MaxTotMoves) : X_DIM = s[1] /\ Y_DIM = s[2] /\ Z_DIM = s[3]
    /\ pc = "play"
    /\ initial_state = low_bits(TOT)
    /\ memo = EmptyMap
    /\ frames = <<>>
    /\ first_win = <<>>
    /\ wm_i = 1
    /\ wm_out = <<>>
    /\ returned = {}
    /\ run = 1
    /\ prev = <<>>
    /\ moves = <<>>
    /\ board = low_bits(TOT)
    /\ overflow_lint = "deny"

\* one move of legal_moves(board) is played: the board becomes its
\* new_state, as it does from a call of win to the calls of its fan-out
Play(k) ==
    /\ pc = "play"
    /\ k \in 1..Len(legal_moves(board))
    /\ board' = legal_moves(board)[k][2]
    /\ UNCHANGED <<X_DIM, Y_DIM, Z_DIM, pc, initial_state, memo, frames,
                   first_win, wm_i, wm_out, returned, run, prev, moves, overflow_lint>>

NextPlay == \E k \in 1..TOT : Play(k)

SpecPlay == InitPlay /\ [][NextPlay]_vars

----------------------------------------------------------------------------
(* Properties of legal_moves (SpecMoves) *)

\* the set of bit positions of the number v, for v < 2^16
Bits(v) == {i \in 0..15 : (v \div (2 ^ i)) % 2 = 1}

\* block index of a coordinate: the inverse of index_to_coord on 0..TOT-1
coord_to_index(c) == c[1] + X_DIM * c[2] + X_DIM * Y_DIM * c[3]

MovesDone == pc = "legal_moves_done"

\* the block at coordinate c is present in state
Present(c, state) == \E i \in state : i < TOT /\ index_to_coord(i) = c

\* C3 as stated: for every board state and every emitted move (c, s'), c is
\* present in the parent, c is not (0,0,0), bit 0 is set in s', and s' is a
\* strict subset of the parent.
C3_SoundnessAnyState ==
    MovesDone =>
        \A k \in 1..Len(moves) :
            /\ Present(moves[k][1], initial_state)
            /\ moves[k][1] # <<0, 0, 0>>
            /\ 0 \in moves[k][2]
            /\ moves[k][2] \subseteq initial_state
            /\ moves[k][2] # initial_state

\* C3 amended: for every board state and every emitted move (c, s'), c is
\* present in the parent, c is not (0,0,0), s' is a strict subset of the
\* parent, and bit 0 is set in s' if and only if it is set in the parent.
C3_Soundness ==
    MovesDone =>
        \A k \in 1..Len(moves) :
            /\ Present(moves[k][1], initial_state)
            /\ moves[k][1] # <<0, 0, 0>>
            /\ (0 \in moves[k][2]) <=> (0 \in initial_state)
            /\ moves[k][2] \subseteq initial_state
            /\ moves[k][2] # initial_state

\* legal_moves has emitted several moves from a parent holding the poison
\* block, one of them removing several blocks at once
C3_Witness ==
    /\ MovesDone
    /\ Len(moves) >= 2
    /\ 0 \in initial_state
    /\ \E k \in 1..Len(moves) :
           Cardinality(initial_state \ moves[k][2]) >= 2 /\ moves[k][2] # One

\* C4: every block index i in [1, TOT) whose bit is set produces exactly
\* one emitted move, whose coordinate is index_to_coord(i); nothing else
\* is emitted.
C4_Completeness ==
    MovesDone =>
        /\ \A i \in initial_state \cap (1..(TOT - 1)) :
               Cardinality({k \in 1..Len(moves) : moves[k][1] = index_to_coord(i)}) = 1
        /\ Len(moves) = Cardinality(initial_state \cap (1..(TOT - 1)))

\* legal_moves has run on a three-dimensional board, on a state with
\* several non-poison blocks, the last block of the board among them
C4_Witness ==
    /\ MovesDone
    /\ X_DIM > 1 /\ Y_DIM > 1 /\ Z_DIM > 1
    /\ (TOT - 1) \in initial_state
    /\ Len(moves) >= 3

\* C9: the moves are emitted in strictly increasing order of the chosen
\* block's index.
C9_IncreasingOrder ==
    MovesDone =>
        \A j, k \in 1..Len(moves) :
            j < k => coord_to_index(moves[j][1]) < coord_to_index(moves[k][1])

\* legal_moves has emitted at least four moves on a three-dimensional
\* board
C9_Witness ==
    /\ MovesDone
    /\ Len(moves) >= 4
    /\ X_DIM > 1 /\ Y_DIM > 1 /\ Z_DIM > 1

----------------------------------------------------------------------------
(* Properties of the search *)

\* C1: for every state s on which win has returned, starting from the
\* initial full board, win(s) is TRUE iff some legal move of s leads to a
\* state on which win returned FALSE; when win(s) is FALSE, win has returned
\* TRUE on the resulting state of every legal move of s.
C1_WinIffLosingChild ==
    \A r \in returned :
        /\ r[2] <=> (\E c \in Children(r[1]) : <<c, FALSE>> \in returned)
        /\ ~r[2] => (\A c \in Children(r[1]) : <<c, TRUE>> \in returned)

\* win has returned TRUE for one state with several moves and FALSE for
\* another, after a fan-out over its children
C1_Witness ==
    /\ pc = "done"
    /\ \E r \in returned : r[2] /\ Cardinality(Children(r[1])) >= 2
    /\ \E r \in returned : ~r[2] /\ Cardinality(Children(r[1])) >= 2

\* C2: win on the state with only the poison bit (value 1) returns FALSE,
\* whatever the memo table holds, an entry for key 1 included.
C2_TerminalLoses ==
    /\ <<Bits(1), TRUE>> \notin returned
    /\ \A p \in DOMAIN frames :
           Last(p) = Bits(1) => frames[p].pc = "done" /\ ~frames[p].ret
    /\ (first_win # <<>> /\ initial_state = Bits(1)) => first_win = <<FALSE>>

\* win has returned on state 1 while the memo table held TRUE for key 1
C2_Witness ==
    /\ Bits(1) \in DOMAIN memo
    /\ memo[Bits(1)] = TRUE
    /\ \E p \in DOMAIN frames :
           Len(p) >= 2 /\ Last(p) = Bits(1) /\ frames[p].pc = "done"

\* C5: in every interleaving of the parallel branches, any two calls of win
\* on the same state return the same value, whether answered from the memo
\* table or computed, and the value is the one a sequential evaluation gives.
C5_SameValue ==
    /\ \A r \in returned : <<r[1], ~r[2]>> \notin returned
    /\ \A r \in returned : r[2] = win_seq(r[1])

\* two racing branches have both computed the value of the same state
C5_Witness ==
    \E p, q \in DOMAIN frames :
        /\ p # q
        /\ Last(p) = Last(q)
        /\ frames[p].pc = "done" /\ frames[p].src = "computed"
        /\ frames[q].pc = "done" /\ frames[q].src = "computed"

\* the coordinates of the moves of state whose resulting state is losing,
\* in the order of legal_moves
LosingCoords(state) ==
    LET lm == legal_moves(state)
        F[k \in 0..Len(lm)] ==
            IF k = 0 THEN <<>>
            ELSE IF ~win_seq(lm[k][2]) THEN Append(F[k - 1], lm[k][1])
            ELSE F[k - 1]
    IN  F[Len(lm)]

\* C6: winning_moves(state) returns the coordinates of exactly the moves of
\* legal_moves(state) whose resulting state is losing, in the order of
\* legal_moves, whether win(state) filled the memo table before or the
\* table was empty.
C6_WinningMoves ==
    pc = "done" =>
        /\ wm_out = LosingCoords(initial_state)
        /\ \A k \in 1..Len(legal_moves(initial_state)) :
               <<legal_moves(initial_state)[k][2], FALSE>> \in returned
                   <=> \E j \in 1..Len(wm_out) :
                           wm_out[j] = legal_moves(initial_state)[k][1]

\* winning_moves was called on the empty table, on a board of a game, and
\* kept several moves, each to a losing state that has moves of its own
C6_Witness ==
    /\ pc = "done"
    /\ first_win = <<>>
    /\ 0 \in initial_state
    /\ Len(wm_out) >= 2
    /\ \A k \in 1..Len(legal_moves(initial_state)) :
           LET mv == legal_moves(initial_state)[k]
           IN  (\E j \in 1..Len(wm_out) : wm_out[j] = mv[1])
                   => Len(legal_moves(mv[2])) >= 2

\* C7: on the board 1 x 1 x 2 the initial state is 3, its only move chooses
\* (0,0,1) and gives state 1, win(3) is TRUE and winning_moves(3) is
\* [(0,0,1)].
C7_SmallBoard ==
    (X_DIM = 1 /\ Y_DIM = 1 /\ Z_DIM = 2) =>
        /\ pc # "start" =>
               /\ initial_state = Bits(3)
               /\ legal_moves(initial_state) = <<<<<<0, 0, 1>>, Bits(1)>>>>
        /\ first_win # <<>> => first_win = <<TRUE>>
        /\ pc = "done" => wm_out = <<<<0, 0, 1>>>>

\* main has finished on the board 1 x 1 x 2
C7_Witness ==
    /\ X_DIM = 1 /\ Y_DIM = 1 /\ Z_DIM = 2
    /\ pc = "done"
    /\ first_win = <<TRUE>>

\* C8: a second full solve of the same configuration in the same process,
\* with the memo table reused or not, gives the same value of first_win
\* and the same list of winning moves as the first.
C8_Idempotent ==
    (pc = "done" /\ run >= 2) =>
        /\ prev.first_win = first_win
        /\ prev.moves = wm_out

\* a second solve on a new memo table has finished with a non-empty list
\* of winning moves on a board with several moves
C8_Witness ==
    /\ pc = "done"
    /\ run = 2
    /\ ~prev.reuse
    /\ Len(wm_out) >= 1
    /\ Len(legal_moves(initial_state)) >= 3

\* C10: when TOT exceeds the 128 bits of a state, the program, built with
\* the settings of the repository (which leave the arithmetic_overflow lint
\* at deny), ends in a fatal failure before win is called; the search is
\* never begun.
C10_OversizeIsFatal ==
    (TOT > Width /\ overflow_lint = "deny") =>
        /\ pc \in {"start", "fatal"}
        /\ frames = <<>> /\ returned = {} /\ first_win = <<>>

\* the program with TOT = 129, lint at deny, has ended in the fatal failure
C10_Witness ==
    /\ TOT > Width
    /\ overflow_lint = "deny"
    /\ pc = "fatal"

\* C11 as stated: for every shape with 1 <= TOT <= 128, TOT = 128 included,
\* main builds the initial state with exactly the bits 0..TOT-1 set, and
\* the computation does not overflow.
C11_InitialStateFull ==
    (TOT <= Width /\ pc # "start") =>
        /\ pc # "fatal"
        /\ initial_state = 0..(TOT - 1)

----------------------------------------------------------------------------
(* Properties of the moves and of the boards of a game *)

\* the block indices whose coordinate is component-wise >= c, written out
\* per component
Dominated(c) ==
    {x + X_DIM * y + X_DIM * Y_DIM * z :
        x \in c[1]..(X_DIM - 1), y \in c[2]..(Y_DIM - 1), z \in c[3]..(Z_DIM - 1)}

\* C12: for every board state and every emitted move with coordinate c, the
\* resulting state is the parent without the blocks whose coordinate is
\* component-wise >= c; the chosen block is cleared, every other bit of the
\* parent is unchanged.
C12_RemovalRule ==
    MovesDone =>
        \A k \in 1..Len(moves) :
            /\ moves[k][2] = initial_state \ Dominated(moves[k][1])
            /\ coord_to_index(moves[k][1]) \notin moves[k][2]

\* a move on a three-dimensional board has removed several blocks and left
\* several non-poison blocks, a bit at or above TOT among the bits kept
C12_Witness ==
    /\ MovesDone
    /\ X_DIM > 1 /\ Y_DIM > 1 /\ Z_DIM > 1
    /\ TOT \in initial_state
    /\ \E k \in 1..Len(moves) :
           /\ Cardinality(initial_state \ moves[k][2]) >= 3
           /\ Cardinality(moves[k][2]) >= 4
           /\ TOT \in moves[k][2]

\* C16: on a state over the TOT positions legal_moves returns the empty
\* sequence only for state 1 and state 0, every other state has a move, and
\* state 0 is not reachable from the full board by legal moves.
C16_EmptyOnlyAtTerminal ==
    (MovesDone /\ initial_state \subseteq 0..(TOT - 1)) =>
        /\ (moves = <<>>) <=> (initial_state \in {Bits(1), Bits(0)})
        /\ initial_state = 0..(TOT - 1) => Bits(0) \notin ReachFrom({initial_state})

\* legal_moves has run on the full board of a three-dimensional shape
C16_Witness ==
    /\ MovesDone
    /\ X_DIM > 1 /\ Y_DIM > 1 /\ Z_DIM > 1
    /\ initial_state = 0..(TOT - 1)
    /\ Len(moves) = TOT - 1

\* C18: every board reachable from the initial full board by legal moves
\* holds the poison block and is downward closed, and a board without legal
\* moves is state 1.
C18_ReachableBoards ==
    pc = "play" =>
        /\ 0 \in board
        /\ \A x \in 0..(X_DIM - 1), y \in 0..(Y_DIM - 1), z \in 0..(Z_DIM - 1) :
               coord_to_index(<<x, y, z>>) \in board =>
                   \A x2 \in 0..x, y2 \in 0..y, z2 \in 0..z :
                       coord_to_index(<<x2, y2, z2>>) \in board
        /\ board \subseteq 0..(TOT - 1)
        /\ legal_moves(board) = <<>> => board = Bits(1)

\* a board of a three-dimensional shape after some moves, with blocks left
\* in every direction
C18_Witness ==
    /\ pc = "play"
    /\ X_DIM > 1 /\ Y_DIM > 1 /\ Z_DIM > 1
    /\ board # initial_state
    /\ {1, X_DIM, X_DIM * Y_DIM} \subseteq board
    /\ Cardinality(initial_state \ board) >= 3

----------------------------------------------------------------------------
(* Properties of the memo table and of main's outputs *)

\* C13: in every reachable state of the parallel search started on an empty
\* memo table, every entry (s, b) of the table has b equal to the game value
\* of s: b is TRUE iff some legal move of s leads to a losing state.
C13_MemoSound ==
    \A s \in DOMAIN memo :
        /\ memo[s] = win_seq(s)
        /\ memo[s] <=> (\E c \in Children(s) : ~win_seq(c))

\* while a branch of the search is still in its fan-out, the table holds
\* a winning state and a losing state with several moves
C13_Witness ==
    /\ pc = "win_wait"
    /\ \E p \in DOMAIN frames : frames[p].pc = "fanout"
    /\ \E s, u \in DOMAIN memo :
           memo[s] /\ ~memo[u] /\ Cardinality(Children(u)) >= 2

\* C14: once the memo table holds value v for key s it holds it in every
\* later state: no entry is removed, and an insert for a key already present
\* writes the value already there.
C14_MemoStable ==
    [][\A s \in DOMAIN memo : s \in DOMAIN memo' /\ memo'[s] = memo[s]]_vars

\* a branch has finished the fan-out of a state that a racing branch has
\* already inserted: its own insert is the second one for that key
C14_Witness ==
    \E p \in DOMAIN frames :
        /\ frames[p].pc = "fanout"
        /\ Last(p) \in DOMAIN memo
        /\ Kids(p) # {}
        /\ \A q \in Kids(p) : frames[q].pc = "done"
        /\ par_any(p) \/ \A c \in Children(Last(p)) : Append(p, c) \in DOMAIN frames

\* C15: a chain of nested calls of win started on any state over TOT bits
\* has at most TOT calls, and under any schedule win and winning_moves
\* return.
C15_DepthAndTermination ==
    /\ [](\A p \in DOMAIN frames : Len(p) <= TOT)
    /\ <>(pc = "done")

\* a chain of nested calls as long as the board has blocks, on a board of
\* at least three blocks
C15_Witness ==
    /\ TOT >= 3
    /\ \E p \in DOMAIN frames : Len(p) = TOT /\ Len(p) >= 3

\* C17: a call of win on state 1 returns at the terminal test, without
\* inserting, and in a search started on an empty memo table state 1 is
\* never a key of the table.
C17_TerminalNotMemoised ==
    /\ Bits(1) \notin DOMAIN memo
    /\ \A p \in DOMAIN frames : Last(p) = Bits(1) => frames[p].src = "base"

\* win has returned on state 1, called from a fan-out, while the table
\* already had entries
C17_Witness ==
    /\ DOMAIN memo # {}
    /\ \E p \in DOMAIN frames :
           /\ Len(p) >= 2
           /\ Last(p) = Bits(1)
           /\ frames[p].pc = "done"
           /\ frames[p].src = "base"

\* C19: on every state reachable from the initial board, winning_moves(s)
\* is non-empty iff win(s) is TRUE; when both were run, the list printed is
\* non-empty exactly when the value printed is TRUE.
C19_OutputsAgree ==
    pc = "done" =>
        /\ (wm_out # <<>>) <=> win_seq(initial_state)
        /\ first_win # <<>> => first_win = <<wm_out # <<>>>>

\* win and then winning_moves have run on a board of a game that has
\* several moves and is losing: win reported FALSE and every move was
\* filtered out
C19_Witness ==
    /\ pc = "done"
    /\ first_win = <<FALSE>>
    /\ initial_state \in ReachFrom({low_bits(TOT)})
    /\ Len(legal_moves(initial_state)) >= 2
    /\ wm_out = <<>>

\* C20: on the full board of every shape with TOT >= 2 win returns TRUE, and
\* on the board with TOT = 1 it returns FALSE.
C20_FirstPlayerWins ==
    (first_win # <<>> /\ initial_state = 0..(TOT - 1)) =>
        first_win = <<TOT >= 2>>

\* main has printed the value of the full board of a shape with two
\* dimensions larger than one
C20_Witness ==
    /\ first_win # <<>>
    /\ initial_state = 0..(TOT - 1)
    /\ Cardinality({d \in 1..3 : <<X_DIM, Y_DIM, Z_DIM>>[d] > 1}) = 2

====
